---- MODULE Spec2Model ----
(***************************************************************************)
(* Model registry of skyagi-web (src/lib/model/model.ts): a catalog of     *)
(* providers and model settings, two type-to-constructor tables, four      *)
(* lookup functions and two factory functions.                             *)
(*                                                                         *)
(* A JavaScript object literal is modelled as the sequence of its          *)
(* properties in declaration order, each a record [key, value]; the order  *)
(* in which Object.entries / Object.keys enumerate it is computed by       *)
(* OwnPropertyKeys.  Opaque objects the code only passes on (args) are     *)
(* records.                                                                *)
(***************************************************************************)
EXTENDS Integers, Sequences, FiniteSets, TLC

VARIABLES
    providerTemplates,          \* the catalog, as declared
    llm_type_to_cls_dict,       \* LLM type tag -> client class
    embedding_type_to_cls_dict, \* embedding type tag -> client class
    lastCall,                   \* the last registry call and what it did
    handles,                    \* client objects constructed so far (owned by callers)
    nextHandle                  \* number of client objects constructed so far

vars == <<providerTemplates, llm_type_to_cls_dict, embedding_type_to_cls_dict,
          lastCall, handles, nextHandle>>

\* ------------------------------------------------------------------ bounds
MaxHandles == 2     \* client objects constructed in one run
MaxProviders == 2   \* providers of a generated catalog
MaxEntries == 2     \* entries of one kind under one provider of a generated catalog

\* ------------------------------------------------------- helper operators
Range(s) == {s[i] : i \in DOMAIN s}

Min(S) == CHOOSE x \in S : \A y \in S : x <= y

RECURSIVE Flatten(_)
Flatten(ss) == IF ss = <<>> THEN <<>> ELSE Head(ss) \o Flatten(Tail(ss))

Reverse(s) == [i \in 1..Len(s) |-> s[Len(s) + 1 - i]]

\* ------------------------------------------------- JavaScript object model
\* Property keys that are canonical array indices, with their numeric value.
ArrayIndexOf == ("2" :> 2) @@ ("10" :> 10)

IsArrayIndex(k) == k \in DOMAIN ArrayIndexOf

RECURSIVE AscendingIndexKeys(_)
AscendingIndexKeys(S) ==
    IF S = {} THEN <<>>
    ELSE LET m == CHOOSE x \in S : \A y \in S : ArrayIndexOf[x] <= ArrayIndexOf[y]
         IN  <<m>> \o AscendingIndexKeys(S \ {m})

\* Own keys in enumeration order: integer-like keys ascending, then the other
\* string keys in declaration order.
OwnPropertyKeys(obj) ==
    LET keys == [i \in 1..Len(obj) |-> obj[i].key]
        NotIndex(k) == ~IsArrayIndex(k)
    IN  AscendingIndexKeys({k \in Range(keys) : IsArrayIndex(k)})
            \o SelectSeq(keys, NotIndex)

PropertyOf(obj, k) == obj[CHOOSE i \in 1..Len(obj) : obj[i].key = k].value

\* Object.entries(obj)
ObjectEntries(obj) ==
    LET keys == OwnPropertyKeys(obj)
    IN  [i \in 1..Len(keys) |-> [key |-> keys[i], value |-> PropertyOf(obj, keys[i])]]

\* Object.keys(obj)
ObjectKeys(obj) == OwnPropertyKeys(obj)

\* Properties every object literal inherits from Object.prototype.
ObjectPrototype ==
    ("constructor" :> "Object") @@ ("toString" :> "Object.prototype.toString")
        @@ ("__proto__" :> "Object.prototype")

\* k in dict: own and inherited properties.
HasProperty(dict, k) == k \in DOMAIN dict \/ k \in DOMAIN ObjectPrototype

\* dict[k]
GetProperty(dict, k) == IF k \in DOMAIN dict THEN dict[k] ELSE ObjectPrototype[k]

\* The values `new` accepts; anything else is a TypeError.
Constructors == {"ChatOpenAI", "OpenAI", "OpenAIEmbeddings", "Object"}

\* The client classes imported from langchain: `new` yields a new object.
ClientClasses == {"ChatOpenAI", "OpenAI", "OpenAIEmbeddings"}

\* ------------------------------------------------------------ the registry
\* LLM/Chat models registry
LlmTypeToClsDict_NoOpenAI == ("ChatOpenAI" :> "ChatOpenAI")

LlmTypeToClsDict == ("ChatOpenAI" :> "ChatOpenAI") @@ ("OpenAI" :> "OpenAI")

\* Embedding models registry
EmbeddingTypeToClsDict == ("OpenAIEmbeddings" :> "OpenAIEmbeddings")

OpenAICredentials == <<[key |-> "openAIApiKey", value |-> "undefined"]>>

LlmSettings(type, name, modelName, credentials) ==
    [type |-> type, provider |-> "OpenAI", name |-> name,
     credentials |-> credentials,
     args |-> [modelName |-> modelName, maxTokens |-> 1500]]

\* Mutant: openai-gpt-4 also asks for an organization.
OpenAILlms_ExtraCredential ==
    << LlmSettings("ChatOpenAI", "openai-gpt-3.5-turbo", "gpt-3.5-turbo", OpenAICredentials),
       LlmSettings("ChatOpenAI", "openai-gpt-4", "gpt-4",
                   OpenAICredentials \o <<[key |-> "organization", value |-> "undefined"]>>),
       LlmSettings("OpenAI", "openai-text-davinci-003", "text-davinci-003", OpenAICredentials) >>

\* Mutant: the gpt-4 entry copied from the one above it without renaming.
OpenAILlms_DuplicateName ==
    << LlmSettings("ChatOpenAI", "openai-gpt-3.5-turbo", "gpt-3.5-turbo", OpenAICredentials),
       LlmSettings("ChatOpenAI", "openai-gpt-3.5-turbo", "gpt-4", OpenAICredentials),
       LlmSettings("OpenAI", "openai-text-davinci-003", "text-davinci-003", OpenAICredentials) >>

\* Mutant: the davinci entry declares no credentials.
OpenAILlms_NoCredentials ==
    << LlmSettings("ChatOpenAI", "openai-gpt-3.5-turbo", "gpt-3.5-turbo", OpenAICredentials),
       LlmSettings("ChatOpenAI", "openai-gpt-4", "gpt-4", OpenAICredentials),
       LlmSettings("OpenAI", "openai-text-davinci-003", "text-davinci-003", <<>>) >>

OpenAILlms ==
    << LlmSettings("ChatOpenAI", "openai-gpt-3.5-turbo", "gpt-3.5-turbo", OpenAICredentials),
       LlmSettings("ChatOpenAI", "openai-gpt-4", "gpt-4", OpenAICredentials),
       LlmSettings("OpenAI", "openai-text-davinci-003", "text-davinci-003", OpenAICredentials) >>

OpenAIEmbeddingsList ==
    << [type |-> "OpenAIEmbeddings", provider |-> "OpenAI",
        name |-> "openai-text-embedding-ada-002",
        credentials |-> OpenAICredentials,
        args |-> [modelName |-> "text-embedding-ada-002"],
        embeddingSize |-> 1536] >>

\* The catalog as shipped.
ProviderTemplates ==
    << [key |-> "OpenAI",
        value |-> [provider |-> "OpenAI",
                   models |-> [llms |-> OpenAILlms,
                               embeddings |-> OpenAIEmbeddingsList]]] >>

\* ------------------------------------------------------ generated catalogs
\* Catalogs other than the shipped one, for the lookups' behaviour on any
\* catalog: up to MaxProviders providers under distinct keys, each with up to
\* MaxEntries entries per kind.  Names may repeat; the credential key of an
\* entry tells its declared position.
ProviderKeys == {"OpenAI", "2", "10"}

GenNames == {"m1", "m2"}

KeySeqs ==
    {ks \in UNION {[1..n -> ProviderKeys] : n \in 1..MaxProviders} :
        \A i, j \in DOMAIN ks : i # j => ks[i] # ks[j]}

NameLists == UNION {[1..n -> GenNames] : n \in 0..MaxEntries}

GenLlm(p, j, name) ==
    [type |-> "ChatOpenAI", provider |-> "OpenAI", name |-> name,
     credentials |-> <<[key |-> "llm_" \o ToString(p) \o "_" \o ToString(j),
                        value |-> "undefined"]>>,
     args |-> [modelName |-> name, maxTokens |-> 1500]]

GenEmbedding(p, j, name) ==
    [type |-> "OpenAIEmbeddings", provider |-> "OpenAI", name |-> name,
     credentials |-> <<[key |-> "emb_" \o ToString(p) \o "_" \o ToString(j),
                        value |-> "undefined"]>>,
     args |-> [modelName |-> name],
     embeddingSize |-> 1536]

GenCatalog(ks, names) ==
    [p \in 1..Len(ks) |->
        [key |-> ks[p],
         value |-> [provider |-> "OpenAI",
                    models |-> [llms |-> [j \in 1..Len(names[p]) |->
                                            GenLlm(p, j, names[p][j])],
                                embeddings |-> [j \in 1..Len(names[p]) |->
                                            GenEmbedding(p, j, Reverse(names[p])[j])]]]]]

\* ------------------------------------------------------- lookup functions
\* The entries of one kind that the nested loops over a catalog visit, in the
\* order they visit them.
Scanned(catalog, kind) ==
    LET entries == ObjectEntries(catalog)
    IN  Flatten([i \in 1..Len(entries) |->
                    IF kind = "llms" THEN entries[i].value.models.llms
                    ELSE entries[i].value.models.embeddings])

ScannedLlms == Scanned(providerTemplates, "llms")

ScannedEmbeddings == Scanned(providerTemplates, "embeddings")

\* The loop body of the two enumerations: push the name of each entry visited.
PushNames(entries) == [i \in 1..Len(entries) |-> entries[i].name]

\* The loop body of the two credential lookups: return the credential keys of
\* the first entry visited whose name is modelName, [] after the loops.
FirstMatchFields(entries, modelName) ==
    LET hits == {i \in 1..Len(entries) : entries[i].name = modelName}
    IN  IF hits = {} THEN <<>>
        ELSE ObjectKeys(entries[Min(hits)].credentials)

\* Mutant: each name is put at the front of the result (unshift for push).
get_all_llms_Unshift == Reverse(PushNames(ScannedLlms))

\* Get all supported LLMs
get_all_llms == PushNames(ScannedLlms)

\* Get all supported Embeddings
get_all_embeddings == PushNames(ScannedEmbeddings)

\* Mutant: the loop goes on after a match, so the last match wins.
get_llm_credentials_fields_LastMatch(modelName) ==
    LET llms == ScannedLlms
        hits == {i \in 1..Len(llms) : llms[i].name = modelName}
    IN  IF hits = {} THEN <<>>
        ELSE ObjectKeys(llms[CHOOSE i \in hits : \A j \in hits : j <= i].credentials)

\* Mutant: without a match, the fields of the last entry scanned are returned.
get_llm_credentials_fields_Fallback(modelName) ==
    LET llms == ScannedLlms
        hits == {i \in 1..Len(llms) : llms[i].name = modelName}
    IN  IF hits # {} THEN ObjectKeys(llms[Min(hits)].credentials)
        ELSE IF llms = <<>> THEN <<>>
        ELSE ObjectKeys(llms[Len(llms)].credentials)

\* Get corresponding LLM's credentials fields
get_llm_credentials_fields(modelName) == FirstMatchFields(ScannedLlms, modelName)

\* Get corresponding Embedding's credentials fields
get_embedding_credentials_fields(modelName) ==
    FirstMatchFields(ScannedEmbeddings, modelName)

\* ------------------------------------------------------ factory functions
\* new cls(args): a TypeError unless cls is a constructor.
New(cls, args) ==
    IF cls \notin Constructors
    THEN [outcome |-> "TypeError", ctor |-> <<>>]
    ELSE [outcome |-> "constructed", ctor |-> <<[cls |-> cls, args |-> args]>>]

\* Mutant: the credentials are handed to the constructor along with args.
load_llm_from_config_WithCredentials(config) ==
    IF ~HasProperty(llm_type_to_cls_dict, config.type)
    THEN [outcome |-> "UnsupportedLLM", ctor |-> <<>>]
    ELSE New(GetProperty(llm_type_to_cls_dict, config.type),
             [args |-> config.args, credentials |-> config.credentials])

load_llm_from_config(config) ==
    IF ~HasProperty(llm_type_to_cls_dict, config.type)
    THEN [outcome |-> "UnsupportedLLM", ctor |-> <<>>]
    ELSE New(GetProperty(llm_type_to_cls_dict, config.type), config.args)

load_embedding_from_config(config) ==
    IF ~HasProperty(embedding_type_to_cls_dict, config.type)
    THEN [outcome |-> "UnsupportedEmbedding", ctor |-> <<>>]
    ELSE New(GetProperty(embedding_type_to_cls_dict, config.type), config.args)

\* ------------------------------------------------------------ the callers
\* Names a caller asks about: those of the catalog and two that may be absent.
ProbeNames == {"does-not-exist", "openai-gpt-4"}

LookupNames == Range(get_all_llms) \cup Range(get_all_embeddings) \cup ProbeNames

\* Type tags a caller may put in a settings object: the enum members and other
\* strings (the declared types are not checked at run time).
TypeTags == {"ChatOpenAI", "OpenAI", "OpenAIEmbeddings", "unknown-type",
             "constructor", "toString", "__proto__"}

CallerArgs ==
    { [modelName |-> "gpt-4", maxTokens |-> 1500],
      [modelName |-> "gpt-4", maxTokens |-> 1500, openAIApiKey |-> "sk-A"] }

CallerCredentials ==
    { <<[key |-> "openAIApiKey", value |-> "sk-A"]>>,
      <<[key |-> "openAIApiKey", value |-> "sk-B"]>> }

\* Settings objects a caller passes to load_llm_from_config: catalog entries as
\* they are, and objects of the caller's own making.
LlmConfigs ==
    Range(ScannedLlms) \cup
    { [type |-> t, provider |-> "OpenAI", name |-> "caller-config",
       credentials |-> c, args |-> a] :
        t \in TypeTags, c \in CallerCredentials, a \in CallerArgs }

EmbeddingConfigs ==
    Range(ScannedEmbeddings) \cup
    { [type |-> t, provider |-> "OpenAI", name |-> "caller-config",
       credentials |-> c, args |-> a, embeddingSize |-> 1536] :
        t \in TypeTags, c \in CallerCredentials, a \in CallerArgs }

NoCall ==
    [op |-> "none", name |-> "", config |-> <<>>, outcome |-> "none",
     names |-> <<>>, ctor |-> <<>>, returned |-> "none", handle |-> 0]

Lookup(op, name, result) ==
    [NoCall EXCEPT !.op = op, !.name = name, !.outcome = "ok", !.names = result,
                   !.returned = "names"]

\* Mutant: the scan consumes the lists it reads (shift in a while loop).
CallGetAllLlms_Drain ==
    /\ lastCall' = Lookup("get_all_llms", "", get_all_llms)
    /\ providerTemplates' =
          [p \in 1..Len(providerTemplates) |->
              [providerTemplates[p] EXCEPT !.value.models.llms = <<>>]]
    /\ UNCHANGED <<llm_type_to_cls_dict, embedding_type_to_cls_dict, handles, nextHandle>>

CallGetAllLlms ==
    /\ lastCall' = Lookup("get_all_llms", "", get_all_llms)
    /\ UNCHANGED <<providerTemplates, llm_type_to_cls_dict, embedding_type_to_cls_dict,
                   handles, nextHandle>>

CallGetAllEmbeddings ==
    /\ lastCall' = Lookup("get_all_embeddings", "", get_all_embeddings)
    /\ UNCHANGED <<providerTemplates, llm_type_to_cls_dict, embedding_type_to_cls_dict,
                   handles, nextHandle>>

CallGetLlmCredentialsFields ==
    \E modelName \in LookupNames :
        /\ lastCall' = Lookup("get_llm_credentials_fields", modelName,
                              get_llm_credentials_fields(modelName))
        /\ UNCHANGED <<providerTemplates, llm_type_to_cls_dict,
                       embedding_type_to_cls_dict, handles, nextHandle>>

CallGetEmbeddingCredentialsFields ==
    \E modelName \in LookupNames :
        /\ lastCall' = Lookup("get_embedding_credentials_fields", modelName,
                              get_embedding_credentials_fields(modelName))
        /\ UNCHANGED <<providerTemplates, llm_type_to_cls_dict,
                       embedding_type_to_cls_dict, handles, nextHandle>>

\* What a factory call leaves behind, given what the function did up to the
\* constructor call.  A langchain client class yields a new object or throws
\* (the registry does not catch it); Object called with an object returns that
\* object; an error thrown before any constructor ran returns nothing.
Load(op, config, r) ==
    LET call == [NoCall EXCEPT !.op = op, !.config = <<config>>, !.ctor = r.ctor]
    IN  /\ UNCHANGED <<providerTemplates, llm_type_to_cls_dict, embedding_type_to_cls_dict>>
        /\ IF r.outcome # "constructed"
           THEN /\ lastCall' = [call EXCEPT !.outcome = r.outcome]
                /\ UNCHANGED <<handles, nextHandle>>
           ELSE IF r.ctor[1].cls \notin ClientClasses
           THEN /\ lastCall' = [call EXCEPT !.outcome = "ok", !.returned = "args"]
                /\ UNCHANGED <<handles, nextHandle>>
           ELSE \/ /\ nextHandle < MaxHandles
                   /\ nextHandle' = nextHandle + 1
                   /\ handles' = handles \cup {nextHandle + 1}
                   /\ lastCall' = [call EXCEPT !.outcome = "ok", !.returned = "handle",
                                               !.handle = nextHandle + 1]
                \/ /\ lastCall' = [call EXCEPT !.outcome = "ExternalError"]
                   /\ UNCHANGED <<handles, nextHandle>>

CallLoadLlmFromConfig ==
    \E config \in LlmConfigs :
        Load("load_llm_from_config", config, load_llm_from_config(config))

CallLoadEmbeddingFromConfig ==
    \E config \in EmbeddingConfigs :
        Load("load_embedding_from_config", config, load_embedding_from_config(config))

\* ------------------------------------------------------- specifications
\* The module as loaded: the shipped catalog and tables, and any calls.
Init ==
    /\ providerTemplates = ProviderTemplates
    /\ llm_type_to_cls_dict = LlmTypeToClsDict
    /\ embedding_type_to_cls_dict = EmbeddingTypeToClsDict
    /\ lastCall = NoCall
    /\ handles = {}
    /\ nextHandle = 0

Next ==
    \/ CallGetAllLlms
    \/ CallGetAllEmbeddings
    \/ CallGetLlmCredentialsFields
    \/ CallGetEmbeddingCredentialsFields
    \/ CallLoadLlmFromConfig
    \/ CallLoadEmbeddingFromConfig

Spec == Init /\ [][Next]_vars

\* The lookups over any catalog: the catalog is drawn from the generated ones
\* and the four lookup functions are applied to it.
InitLookup ==
    /\ \E ks \in KeySeqs :
          \E names \in [1..Len(ks) -> NameLists] :
              providerTemplates = GenCatalog(ks, names)
    /\ llm_type_to_cls_dict = LlmTypeToClsDict
    /\ embedding_type_to_cls_dict = EmbeddingTypeToClsDict
    /\ lastCall = NoCall
    /\ handles = {}
    /\ nextHandle = 0

NextLookup ==
    \/ CallGetAllLlms
    \/ CallGetAllEmbeddings
    \/ CallGetLlmCredentialsFields
    \/ CallGetEmbeddingCredentialsFields

SpecLookup == InitLookup /\ [][NextLookup]_vars

\* ---------------------------------------------- what the claims speak about
\* The catalog as declared: the entries of one kind under the p-th declared
\* provider, and every declared position <<p, j>> of that kind.
DeclEntries(kind, p) ==
    IF kind = "llms" THEN providerTemplates[p].value.models.llms
    ELSE providerTemplates[p].value.models.embeddings

DeclPositions(kind) ==
    UNION {{<<p, j>> : j \in 1..Len(DeclEntries(kind, p))} : p \in 1..Len(providerTemplates)}

EntryAt(kind, pos) == DeclEntries(kind, pos[1])[pos[2]]

Matches(kind, name) == {pos \in DeclPositions(kind) : EntryAt(kind, pos).name = name}

CredentialKeys(entry) == {entry.credentials[i].key : i \in 1..Len(entry.credentials)}

\* Number of entries of a kind declared under the providers before the p-th.
RECURSIVE Offset(_, _)
Offset(kind, p) == IF p = 1 THEN 0 ELSE Offset(kind, p - 1) + Len(DeclEntries(kind, p - 1))

\* The names of a kind, provider after provider as declared, entry after entry.
InDeclarationOrder(kind, names) ==
    /\ Len(names) = Offset(kind, Len(providerTemplates) + 1)
    /\ \A pos \in DeclPositions(kind) :
          names[Offset(kind, pos[1]) + pos[2]] = EntryAt(kind, pos).name

\* pos comes no later than q when providers are taken in declaration order.
DeclaredBefore(pos, q) == pos[1] < q[1] \/ (pos[1] = q[1] /\ pos[2] <= q[2])

\* Provider p is enumerated before provider q: keys that are array indices
\* come first, ascending by number; the others follow as declared.
ProviderBefore(p, q) ==
    LET kp == providerTemplates[p].key
        kq == providerTemplates[q].key
    IN  IF IsArrayIndex(kp) /\ IsArrayIndex(kq) THEN ArrayIndexOf[kp] < ArrayIndexOf[kq]
        ELSE IF IsArrayIndex(kp) THEN TRUE
        ELSE IF IsArrayIndex(kq) THEN FALSE
        ELSE p < q

EnumeratedBefore(pos, q) ==
    IF pos[1] = q[1] THEN pos[2] <= q[2] ELSE ProviderBefore(pos[1], q[1])

LookupKind(call) ==
    IF call.op = "get_llm_credentials_fields" THEN "llms" ELSE "embeddings"

IsFieldsLookup(call) ==
    call.op \in {"get_llm_credentials_fields", "get_embedding_credentials_fields"}

RegistryUnchanged ==
    /\ providerTemplates' = providerTemplates
    /\ llm_type_to_cls_dict' = llm_type_to_cls_dict
    /\ embedding_type_to_cls_dict' = embedding_type_to_cls_dict

\* ------------------------------------------------------------------ C1
\* C1 as stated: a credential-fields lookup by the name of a catalog entry of
\* the queried kind returns exactly the set {"apiKey"}.
C1_ReturnsApiKey ==
    (IsFieldsLookup(lastCall) /\ Matches(LookupKind(lastCall), lastCall.name) # {})
        => Range(lastCall.names) = {"apiKey"}

\* C1 amended: a credential-fields lookup by the name of a catalog entry of
\* the queried kind returns the single field name openAIApiKey and nothing else.
C1_ReturnsOpenAIApiKey ==
    (IsFieldsLookup(lastCall) /\ Matches(LookupKind(lastCall), lastCall.name) # {})
        => lastCall.names = <<"openAIApiKey">>

C1_Witness ==
    /\ lastCall.op = "get_embedding_credentials_fields"
    /\ lastCall.name = "openai-text-embedding-ada-002"
    /\ lastCall.names = <<"openAIApiKey">>

\* ------------------------------------------------------------------ C2
\* C2: a factory call whose type tag is no key of the table of its kind ends in
\* the unsupported-type error of that kind, and no constructor is invoked.
C2_UnregisteredTypeRaises ==
    /\ (lastCall.op = "load_llm_from_config"
            /\ lastCall.config[1].type \notin DOMAIN llm_type_to_cls_dict)
          => (lastCall.outcome = "UnsupportedLLM" /\ lastCall.ctor = <<>>)
    /\ (lastCall.op = "load_embedding_from_config"
            /\ lastCall.config[1].type \notin DOMAIN embedding_type_to_cls_dict)
          => (lastCall.outcome = "UnsupportedEmbedding" /\ lastCall.ctor = <<>>)

C4_FirstMatchInDeclarationOrder ==
    IsFieldsLookup(lastCall) =>
        \A pos \in Matches(LookupKind(lastCall), lastCall.name) :
            (\A q \in Matches(LookupKind(lastCall), lastCall.name) : DeclaredBefore(pos, q))
                => Range(lastCall.names) = CredentialKeys(EntryAt(LookupKind(lastCall), pos))

\* C4 amended: on any catalog, a credential-fields lookup by a name that
\* matches returns the credential keys of the first matching entry in the order
\* of the scan: providers whose keys are array indices first, ascending by
\* number, then the other providers as declared; entries as declared within a
\* provider.
C4_FirstMatchInEnumerationOrder ==
    IsFieldsLookup(lastCall) =>
        \A pos \in Matches(LookupKind(lastCall), lastCall.name) :
            (\A q \in Matches(LookupKind(lastCall), lastCall.name) : EnumeratedBefore(pos, q))
                => Range(lastCall.names) = CredentialKeys(EntryAt(LookupKind(lastCall), pos))

C4_Witness ==
    /\ lastCall.op = "get_llm_credentials_fields"
    /\ \E pos, q \in Matches("llms", lastCall.name) :
          /\ pos[1] > q[1]
          /\ \A r \in Matches("llms", lastCall.name) : EnumeratedBefore(pos, r)
          /\ Range(lastCall.names) = CredentialKeys(EntryAt("llms", pos))
    /\ \E pos, q \in Matches("llms", lastCall.name) : pos[1] = q[1] /\ pos[2] # q[2]

\* ------------------------------------------------------------------ C5
\* C5: a credential-fields lookup by a name that matches no entry of the
\* queried kind returns an empty result and raises no error.
C5_NoMatchReturnsEmpty ==
    (IsFieldsLookup(lastCall) /\ Matches(LookupKind(lastCall), lastCall.name) = {})
        => (lastCall.names = <<>> /\ lastCall.outcome = "ok")

C5_Witness ==
    /\ lastCall.op = "get_llm_credentials_fields"
    /\ lastCall.name = "openai-text-embedding-ada-002"
    /\ lastCall.names = <<>>
    /\ lastCall.outcome = "ok"

\* ------------------------------------------------------------------ C6
\* C6: every type tag on a catalog entry is a key of the table of its kind, and
\* a factory call on a catalog entry never ends in the unsupported-type error.
C6_CatalogTypesRegistered ==
    /\ \A pos \in DeclPositions("llms") :
          EntryAt("llms", pos).type \in DOMAIN llm_type_to_cls_dict
    /\ \A pos \in DeclPositions("embeddings") :
          EntryAt("embeddings", pos).type \in DOMAIN embedding_type_to_cls_dict
    /\ (lastCall.op = "load_llm_from_config"
            /\ \E pos \in DeclPositions("llms") : lastCall.config[1] = EntryAt("llms", pos))
          => lastCall.outcome # "UnsupportedLLM"
    /\ (lastCall.op = "load_embedding_from_config"
            /\ \E pos \in DeclPositions("embeddings") :
                  lastCall.config[1] = EntryAt("embeddings", pos))
          => lastCall.outcome # "UnsupportedEmbedding"

C6_Witness ==
    /\ lastCall.op = "load_llm_from_config"
    /\ lastCall.config[1] = EntryAt("llms", <<1, 3>>)
    /\ lastCall.outcome = "ok"
    /\ lastCall.ctor[1].cls = "OpenAI"

\* ------------------------------------------------------------------ C7
\* C7: no registry operation changes the catalog or the two tables, so what
\* each lookup returns for a given argument is the same before and after any
\* call, and a call to get_all_llms returns what it would have returned before.
C7_RegistryNeverMutated ==
    [][ /\ RegistryUnchanged
        /\ PushNames(Scanned(providerTemplates', "llms")) = get_all_llms
        /\ PushNames(Scanned(providerTemplates', "embeddings")) = get_all_embeddings
        /\ \A n \in LookupNames :
              /\ FirstMatchFields(Scanned(providerTemplates', "llms"), n)
                    = get_llm_credentials_fields(n)
              /\ FirstMatchFields(Scanned(providerTemplates', "embeddings"), n)
                    = get_embedding_credentials_fields(n)
        /\ lastCall'.op = "get_all_llms" => lastCall'.names = get_all_llms
      ]_vars

C7_Witness ==
    /\ lastCall.op = "get_all_llms"
    /\ lastCall.names = get_all_llms
    /\ nextHandle = MaxHandles

\* ------------------------------------------------------------------ C8
\* C8: no two distinct catalog entries, of whatever provider and kind, have
\* the same name.
C8_NamesUnique ==
    \A k1, k2 \in {"llms", "embeddings"} :
        \A pos \in DeclPositions(k1), q \in DeclPositions(k2) :
            EntryAt(k1, pos).name = EntryAt(k2, q).name => (k1 = k2 /\ pos = q)

C8_Witness ==
    /\ Cardinality(DeclPositions("llms")) = 3
    /\ Cardinality(DeclPositions("embeddings")) = 1
    /\ lastCall.op = "get_all_embeddings"

\* ------------------------------------------------------------------ C9
\* C9: for every name get_all_llms returns, get_llm_credentials_fields of
\* that name is non-empty.
C9_EveryLlmHasCredentialFields ==
    /\ lastCall.op = "get_all_llms" =>
          \A i \in 1..Len(lastCall.names) :
              get_llm_credentials_fields(lastCall.names[i]) # <<>>
    /\ (lastCall.op = "get_llm_credentials_fields" /\ lastCall.name \in Range(get_all_llms))
          => lastCall.names # <<>>

C9_Witness ==
    /\ lastCall.op = "get_llm_credentials_fields"
    /\ lastCall.name = "openai-text-davinci-003"
    /\ Len(lastCall.names) > 0

\* ------------------------------------------------------------------ C10
\* C10: a factory call on a registered type tag invokes exactly one
\* constructor, the one the table maps the tag to, with the settings' args and
\* nothing else; when the constructor returns, the result is an object that did
\* not exist before, and the registry is left as it was.
C10_OneConstructorCallWithArgs ==
    [][ LET call == lastCall'
            Registered(dict) ==
                /\ call.ctor = <<[cls |-> dict[call.config[1].type],
                                  args |-> call.config[1].args]>>
                /\ call.outcome \in {"ok", "ExternalError"}
                /\ call.outcome = "ok" =>
                      /\ call.returned = "handle"
                      /\ call.handle \notin handles
                      /\ call.handle \in handles'
                /\ RegistryUnchanged
        IN  /\ (call.op = "load_llm_from_config"
                    /\ call.config[1].type \in DOMAIN llm_type_to_cls_dict)
                  => Registered(llm_type_to_cls_dict)
            /\ (call.op = "load_embedding_from_config"
                    /\ call.config[1].type \in DOMAIN embedding_type_to_cls_dict)
                  => Registered(embedding_type_to_cls_dict)
      ]_vars

C10_Witness ==
    /\ lastCall.op = "load_llm_from_config"
    /\ lastCall.config[1].name = "caller-config"
    /\ lastCall.config[1].credentials[1].value = "sk-B"
    /\ lastCall.outcome = "ok"
    /\ lastCall.handle = 2
    /\ lastCall.ctor = <<[cls |-> "OpenAI", args |-> lastCall.config[1].args]>>

====
